---------------------------- MODULE Spec2Model ----------------------------
(***************************************************************************)
(* Model of the BMA423 accelerometer driver (bma423.py).                   *)
(*                                                                         *)
(* The device is a bank of byte-wide registers behind an I2C bus.  The     *)
(* driver object (the handle) holds one piece of state of its own, the     *)
(* cached range _acc_range_mem.  Every property and setter of the class is *)
(* one action; the register descriptors (RWBit, RWBits, UnaryStruct,       *)
(* ROUnaryStruct) are operators that issue the bus transactions the        *)
(* descriptors issue: a read for a get, a read followed by a write of the  *)
(* whole byte for a set.                                                   *)
(***************************************************************************)
EXTENDS Integers, Sequences, FiniteSets, TLC

VARIABLES
    reg,             \* the device's configuration registers, address -> byte
    handle,          \* "absent" (no object yet) or "operational"
    _acc_range_mem,  \* the handle's cached range code, NoValue while absent
    log,             \* the bus transactions of the most recent call, in order
    last             \* the most recent call: name, argument, outcome, result

vars == <<reg, handle, _acc_range_mem, log, last>>

---------------------------------------------------------------------------
\* Register addresses and setting codes

_REG_WHOAMI == 0
_PWR_CTRL == 125
_ACC_RANGE == 65
_ACC_CONF == 64

ACCX_LSB == 18
ACCX_MSB == 19
ACCY_LSB == 20
ACCY_MSB == 21
ACCZ_LSB == 22
ACCZ_MSB == 23
TEMP == 34

DEVICE_ID == 19

ACC_RANGE_2 == 0
ACC_RANGE_4 == 1
ACC_RANGE_8 == 2
ACC_RANGE_16 == 3
acc_range_values == {ACC_RANGE_2, ACC_RANGE_4, ACC_RANGE_8, ACC_RANGE_16}

acc_range_factor(r) ==
    CASE r = 0 -> 1024 [] r = 1 -> 512 [] r = 2 -> 256 [] r = 3 -> 128

BANDWIDTH_25_32 == 1
BANDWIDTH_50 == 7
BANDWIDTH_1600 == 12
output_data_rate_values == BANDWIDTH_25_32 .. BANDWIDTH_1600

OSR1 == 0
OSR128 == 7
oversample_rate_values == OSR1 .. OSR128

CIC_AVG == 0
CONT == 1
filter_performance_values == {CIC_AVG, CONT}

\* The tuples of names the getters index
acc_range_names == <<"ACC_RANGE_2", "ACC_RANGE_4", "ACC_RANGE_8", "ACC_RANGE_16">>

output_data_rate_names ==
    <<"BANDWIDTH_25_32", "BANDWIDTH_25_16", "BANDWIDTH_25_8", "BANDWIDTH_25_4",
      "BANDWIDTH_25_2", "BANDWIDTH_25", "BANDWIDTH_50", "BANDWIDTH_100",
      "BANDWIDTH_200", "BANDWIDTH_400", "BANDWIDTH_800", "BANDWIDTH_1600">>

oversample_rate_names ==
    <<"OSR1", "OSR2", "OSR4", "OSR8", "OSR16", "OSR32", "OSR64", "OSR128">>

filter_performance_names == <<"CIC_AVG", "CONT">>

---------------------------------------------------------------------------
\* Bounds of the model

\* setter arguments reach NegCodes below and Margin above each legal set
NegCodes == 1
Margin == 1
\* a transport error may hit any one of the first MaxTransactions bus
\* transactions of the constructor or of the range setter, the two calls that
\* assign the cached range (0: none fails); the other calls run on a bus that
\* answers
MaxTransactions == 4

Byte == 0 .. 255
FailPoints == 0 .. MaxTransactions
NoValue == "none"

---------------------------------------------------------------------------
\* Integer bit operations, as Python computes them on non-negative ints

RECURSIVE BitAnd(_, _)
BitAnd(a, b) ==
    IF a = 0 \/ b = 0 THEN 0
    ELSE (a % 2) * (b % 2) + 2 * BitAnd(a \div 2, b \div 2)

RECURSIVE BitOr(_, _)
BitOr(a, b) ==
    IF a = 0 THEN b
    ELSE IF b = 0 THEN a
    ELSE (IF a % 2 = 1 \/ b % 2 = 1 THEN 1 ELSE 0) + 2 * BitOr(a \div 2, b \div 2)

\* reg &= ~mask
BitClear(a, mask) == a - BitAnd(a, mask)

ShiftLeft(a, n) == a * 2 ^ n
ShiftRight(a, n) == a \div 2 ^ n

\* values[i] on a Python tuple: item i counted from 0, IndexError past the end
TupleIndex(names, i) ==
    IF i < Len(names) THEN [status |-> "ok", ret |-> names[i + 1]]
    ELSE [status |-> "IndexError", ret |-> ""]

---------------------------------------------------------------------------
\* The bus.  A call runs against a context: the registers it sees, the
\* transactions it has issued, the byte of its last read, whether a transport
\* error has been raised (every later statement of the call is then skipped)
\* and which transaction is the one that fails.

Tx(kind, addr, byte, done) == [kind |-> kind, addr |-> addr, val |-> byte, ok |-> done]

Ctx(r, fail) == [reg |-> r, log |-> <<>>, val |-> 0, err |-> FALSE, fail |-> fail]

BusRead(c, addr) ==
    IF c.err THEN c
    ELSE IF Len(c.log) + 1 = c.fail
    THEN [c EXCEPT !.err = TRUE, !.log = Append(@, Tx("r", addr, 0, FALSE))]
    ELSE [c EXCEPT !.val = c.reg[addr],
                   !.log = Append(@, Tx("r", addr, c.reg[addr], TRUE))]

BusWrite(c, addr, byte) ==
    IF c.err THEN c
    ELSE IF Len(c.log) + 1 = c.fail
    THEN [c EXCEPT !.err = TRUE, !.log = Append(@, Tx("w", addr, byte, FALSE))]
    ELSE [c EXCEPT !.reg = [c.reg EXCEPT ![addr] = byte],
                   !.log = Append(@, Tx("w", addr, byte, TRUE))]

\* RWBits(num_bits, register_address, lowest_bit)
BitMask(num_bits, lowest_bit) == ShiftLeft(2 ^ num_bits - 1, lowest_bit)

RWBits_get(c, num_bits, addr, lowest_bit) ==
    LET c1 == BusRead(c, addr) IN
    IF c1.err THEN c1
    ELSE [c1 EXCEPT !.val = ShiftRight(BitAnd(c1.val, BitMask(num_bits, lowest_bit)),
                                       lowest_bit)]

\* a set that writes the field without keeping the byte's other bits
RWBits_set_overwrite(c, num_bits, addr, lowest_bit, value) ==
    LET c1 == BusRead(c, addr) IN
    IF c1.err THEN c1 ELSE BusWrite(c1, addr, BitAnd(ShiftLeft(value, lowest_bit), 255))

RWBits_set(c, num_bits, addr, lowest_bit, value) ==
    LET c1 == BusRead(c, addr)
        cleared == BitClear(c1.val, BitMask(num_bits, lowest_bit))
        merged == BitOr(cleared, ShiftLeft(value, lowest_bit))
    IN  IF c1.err THEN c1 ELSE BusWrite(c1, addr, BitAnd(merged, 255))

\* RWBit(register_address, bit)
RWBit_get(c, addr, bit) ==
    LET c1 == BusRead(c, addr) IN
    IF c1.err THEN c1
    ELSE [c1 EXCEPT !.val = IF BitAnd(c1.val, ShiftLeft(1, bit)) # 0 THEN 1 ELSE 0]

RWBit_set(c, addr, bit, value) ==
    LET c1 == BusRead(c, addr)
        byte == IF value # 0 THEN BitOr(c1.val, ShiftLeft(1, bit))
                ELSE BitClear(c1.val, ShiftLeft(1, bit))
    IN  IF c1.err THEN c1 ELSE BusWrite(c1, addr, byte)

\* UnaryStruct(register_address, "B") and ROUnaryStruct: one byte, read whole
UnaryStruct_get(c, addr) == BusRead(c, addr)

---------------------------------------------------------------------------
\* The configuration registers kept as state, and the field views of them

ConfigRegs == {_REG_WHOAMI, _PWR_CTRL, _ACC_RANGE, _ACC_CONF}
DataRegs == {ACCX_LSB, ACCX_MSB, ACCY_LSB, ACCY_MSB, ACCZ_LSB, ACCZ_MSB, TEMP}

Config(r) == [a \in ConfigRegs |-> r[a]]

\* the registers a call sees: the configuration and the sensor's current output
Seen(data) == reg @@ data

OdrField(r) == r[_ACC_CONF] % 16
OsrField(r) == (r[_ACC_CONF] \div 16) % 8
PerfBit(r) == r[_ACC_CONF] \div 128
RangeField(r) == r[_ACC_RANGE] % 4
RangeRest(r) == r[_ACC_RANGE] \div 4
AccOnBit(r) == (r[_PWR_CTRL] \div 4) % 2
PwrRest(r) == r[_PWR_CTRL] - 4 * AccOnBit(r)

NoData == [a \in DataRegs |-> 0]

Outcome(op, arg, status, ret, raw, out) ==
    [op |-> op, arg |-> arg, status |-> status, ret |-> ret, raw |-> raw, out |-> out]

\* how a call that ran against context c ended, given the outcome it has when
\* no transport error was raised
Ended(c, op, arg, status, ret, raw, out) ==
    IF c.err THEN Outcome(op, arg, "OSError", "", <<>>, <<>>)
    ELSE Outcome(op, arg, status, ret, raw, out)

---------------------------------------------------------------------------
\* __init__

\* a constructor that enables the accelerometer before it checks the identity
BMA423_init_enable_first(fail) ==
    /\ handle = "absent"
    /\ LET c0 == Ctx(Seen(NoData), fail)
           c1 == RWBit_set(c0, _PWR_CTRL, 2, 1)
           c2 == UnaryStruct_get(c1, _REG_WHOAMI)
           found == c2.val = DEVICE_ID
           c4 == IF found THEN RWBits_get(c2, 2, _ACC_RANGE, 0) ELSE c2
       IN  /\ fail = 0 \/ c4.err
           /\ reg' = Config(c4.reg)
           /\ log' = c4.log
           /\ handle' = IF found /\ ~c4.err THEN "operational" ELSE "absent"
           /\ _acc_range_mem' = IF found /\ ~c4.err THEN c4.val ELSE NoValue
           /\ last' = Ended(c4, "__init__", 0,
                            IF found THEN "ok" ELSE "RuntimeError", "", <<>>, <<>>)

BMA423_init(fail) ==
    /\ handle = "absent"
    /\ LET c0 == Ctx(Seen(NoData), fail)
           c1 == UnaryStruct_get(c0, _REG_WHOAMI)
           found == c1.val = DEVICE_ID
           c2 == IF found THEN RWBit_set(c1, _PWR_CTRL, 2, 1) ELSE c1
           c3 == IF found THEN RWBits_get(c2, 2, _ACC_RANGE, 0) ELSE c2
       IN  /\ fail = 0 \/ c3.err
           /\ reg' = Config(c3.reg)
           /\ log' = c3.log
           /\ handle' = IF found /\ ~c3.err THEN "operational" ELSE "absent"
           /\ _acc_range_mem' = IF found /\ ~c3.err THEN c3.val ELSE NoValue
           /\ last' = Ended(c3, "__init__", 0,
                            IF found THEN "ok" ELSE "RuntimeError", "", <<>>, <<>>)

---------------------------------------------------------------------------
\* acc_range

acc_range ==
    /\ handle = "operational"
    /\ LET r == TupleIndex(acc_range_names, _acc_range_mem) IN
       last' = Outcome("acc_range", 0, r.status, r.ret, <<>>, <<>>)
    /\ log' = <<>>
    /\ UNCHANGED <<reg, handle, _acc_range_mem>>

\* a setter that updates the cache before the bus write has succeeded
acc_range_setter_cache_first(value, fail) ==
    /\ handle = "operational"
    /\ IF value \notin acc_range_values
       THEN /\ fail = 0
            /\ last' = Outcome("acc_range.setter", value, "ValueError", "", <<>>, <<>>)
            /\ log' = <<>>
            /\ UNCHANGED <<reg, handle, _acc_range_mem>>
       ELSE LET c == RWBits_set(Ctx(Seen(NoData), fail), 2, _ACC_RANGE, 0, value) IN
            /\ fail = 0 \/ c.err
            /\ reg' = Config(c.reg)
            /\ log' = c.log
            /\ _acc_range_mem' = value
            /\ last' = Ended(c, "acc_range.setter", value, "ok", "", <<>>, <<>>)
            /\ UNCHANGED handle

\* a setter that writes the device and forgets the cache
acc_range_setter_no_cache(value, fail) ==
    /\ handle = "operational"
    /\ IF value \notin acc_range_values
       THEN /\ fail = 0
            /\ last' = Outcome("acc_range.setter", value, "ValueError", "", <<>>, <<>>)
            /\ log' = <<>>
            /\ UNCHANGED <<reg, handle, _acc_range_mem>>
       ELSE LET c == RWBits_set(Ctx(Seen(NoData), fail), 2, _ACC_RANGE, 0, value) IN
            /\ fail = 0 \/ c.err
            /\ reg' = Config(c.reg)
            /\ log' = c.log
            /\ last' = Ended(c, "acc_range.setter", value, "ok", "", <<>>, <<>>)
            /\ UNCHANGED <<handle, _acc_range_mem>>

acc_range_setter(value, fail) ==
    /\ handle = "operational"
    /\ IF value \notin acc_range_values
       THEN /\ fail = 0
            /\ last' = Outcome("acc_range.setter", value, "ValueError", "", <<>>, <<>>)
            /\ log' = <<>>
            /\ UNCHANGED <<reg, handle, _acc_range_mem>>
       ELSE LET c == RWBits_set(Ctx(Seen(NoData), fail), 2, _ACC_RANGE, 0, value) IN
            /\ fail = 0 \/ c.err
            /\ reg' = Config(c.reg)
            /\ log' = c.log
            /\ _acc_range_mem' = IF c.err THEN _acc_range_mem ELSE value
            /\ last' = Ended(c, "acc_range.setter", value, "ok", "", <<>>, <<>>)
            /\ UNCHANGED handle

---------------------------------------------------------------------------
\* _twos_comp(val, bits)

\* a sign test on bit `bits` instead of bit `bits - 1`
twos_comp_wrong_bit(val, bits) ==
    IF BitAnd(val, ShiftLeft(1, bits)) # 0 THEN val - ShiftLeft(1, bits) ELSE val

twos_comp(val, bits) ==
    IF BitAnd(val, ShiftLeft(1, bits - 1)) # 0 THEN val - ShiftLeft(1, bits) ELSE val

\* Python's true division of two ints, as the exact fraction in lowest terms
\* (each quotient here is a 12-bit count over a power of two, which a float
\* holds exactly)
RECURSIVE Gcd(_, _)
Gcd(a, b) == IF b = 0 THEN a ELSE Gcd(b, a % b)

Abs(n) == IF n < 0 THEN 0 - n ELSE n

TrueDiv(n, d) ==
    LET g == Gcd(Abs(n), d) IN [num |-> n \div g, den |-> d \div g]

---------------------------------------------------------------------------
\* acceleration

\* the x axis joins the two bytes with |, the y and z axes with +
CountX(lsb, msb) ==
    LET alx == BitAnd(lsb, 240)
        ahx == ShiftLeft(msb, 8)
        totx == ShiftRight(BitOr(alx, ahx), 4)
    IN  twos_comp(totx, 12)

CountYZ(lsb, msb) ==
    LET aly == BitAnd(lsb, 240)
        ahy == ShiftLeft(msb, 8)
        toty == ShiftRight(aly + ahy, 4)
    IN  twos_comp(toty, 12)

\* a scaling that divides z by the 2g factor whatever the range
Scaled_fixed_z(totalx, totaly, totalz, range) ==
    <<TrueDiv(totalx, acc_range_factor(range)),
      TrueDiv(totaly, acc_range_factor(range)),
      TrueDiv(totalz, acc_range_factor(ACC_RANGE_2))>>

Scaled(totalx, totaly, totalz, range) ==
    LET factor == acc_range_factor(range) IN
    <<TrueDiv(totalx, factor), TrueDiv(totaly, factor), TrueDiv(totalz, factor)>>

acceleration(data) ==
    /\ handle = "operational"
    /\ LET c0 == Ctx(Seen(data), 0)
           c1 == UnaryStruct_get(c0, ACCX_LSB)
           c2 == UnaryStruct_get(c1, ACCX_MSB)
           totalx == CountX(c1.val, c2.val)
           c3 == UnaryStruct_get(c2, ACCY_LSB)
           c4 == UnaryStruct_get(c3, ACCY_MSB)
           totaly == CountYZ(c3.val, c4.val)
           c5 == UnaryStruct_get(c4, ACCZ_LSB)
           c6 == UnaryStruct_get(c5, ACCZ_MSB)
           totalz == CountYZ(c5.val, c6.val)
       IN  /\ log' = c6.log
           /\ reg' = Config(c6.reg)
           /\ last' = Ended(c6, "acceleration", 0, "ok", "",
                            <<totalx, totaly, totalz>>,
                            Scaled(totalx, totaly, totalz, _acc_range_mem))
    /\ UNCHANGED <<handle, _acc_range_mem>>

---------------------------------------------------------------------------
\* temperature

\* a conversion that skips the sign extension
Celsius_unsigned(raw_temp) == raw_temp + 23

Celsius(raw_temp) == twos_comp(raw_temp, 8) + 23

temperature(data) ==
    /\ handle = "operational"
    /\ LET c == UnaryStruct_get(Ctx(Seen(data), 0), TEMP) IN
       /\ log' = c.log
       /\ reg' = Config(c.reg)
       /\ last' = Ended(c, "temperature", 0, "ok", "", <<c.val>>,
                        <<TrueDiv(Celsius(c.val), 1)>>)
    /\ UNCHANGED <<handle, _acc_range_mem>>

---------------------------------------------------------------------------
\* output_data_rate

output_data_rate ==
    /\ handle = "operational"
    /\ LET c == RWBits_get(Ctx(Seen(NoData), 0), 4, _ACC_CONF, 0)
           r == TupleIndex(output_data_rate_names, c.val)
       IN  /\ log' = c.log
           /\ reg' = Config(c.reg)
           /\ last' = Ended(c, "output_data_rate", 0, r.status, r.ret, <<>>, <<>>)
    /\ UNCHANGED <<handle, _acc_range_mem>>

output_data_rate_setter(value) ==
    /\ handle = "operational"
    /\ IF value \notin output_data_rate_values
       THEN /\ last' = Outcome("output_data_rate.setter", value, "ValueError", "",
                               <<>>, <<>>)
            /\ log' = <<>>
            /\ UNCHANGED reg
       ELSE LET c == RWBits_set(Ctx(Seen(NoData), 0), 4, _ACC_CONF, 0, value) IN
            /\ reg' = Config(c.reg)
            /\ log' = c.log
            /\ last' = Ended(c, "output_data_rate.setter", value, "ok", "", <<>>, <<>>)
    /\ UNCHANGED <<handle, _acc_range_mem>>

---------------------------------------------------------------------------
\* oversample_rate

oversample_rate ==
    /\ handle = "operational"
    /\ LET c == RWBits_get(Ctx(Seen(NoData), 0), 3, _ACC_CONF, 4)
           r == TupleIndex(oversample_rate_names, c.val)
       IN  /\ log' = c.log
           /\ reg' = Config(c.reg)
           /\ last' = Ended(c, "oversample_rate", 0, r.status, r.ret, <<>>, <<>>)
    /\ UNCHANGED <<handle, _acc_range_mem>>

\* a setter that leaves the filter bit alone
oversample_rate_setter_no_force(value) ==
    /\ handle = "operational"
    /\ IF value \notin oversample_rate_values
       THEN /\ last' = Outcome("oversample_rate.setter", value, "ValueError", "",
                               <<>>, <<>>)
            /\ log' = <<>>
            /\ UNCHANGED reg
       ELSE LET c == RWBits_set(Ctx(Seen(NoData), 0), 3, _ACC_CONF, 4, value) IN
            /\ reg' = Config(c.reg)
            /\ log' = c.log
            /\ last' = Ended(c, "oversample_rate.setter", value, "ok", "", <<>>, <<>>)
    /\ UNCHANGED <<handle, _acc_range_mem>>

\* a setter that forces the filter bit before it validates the value
oversample_rate_setter_force_first(value) ==
    /\ handle = "operational"
    /\ LET c1 == RWBit_set(Ctx(Seen(NoData), 0), _ACC_CONF, 7, 1) IN
       IF value \notin oversample_rate_values
       THEN /\ last' = Outcome("oversample_rate.setter", value, "ValueError", "",
                               <<>>, <<>>)
            /\ log' = c1.log
            /\ reg' = Config(c1.reg)
       ELSE LET c2 == RWBits_set(c1, 3, _ACC_CONF, 4, value) IN
            /\ reg' = Config(c2.reg)
            /\ log' = c2.log
            /\ last' = Ended(c2, "oversample_rate.setter", value, "ok", "",
                             <<>>, <<>>)
    /\ UNCHANGED <<handle, _acc_range_mem>>

oversample_rate_setter(value) ==
    /\ handle = "operational"
    /\ IF value \notin oversample_rate_values
       THEN /\ last' = Outcome("oversample_rate.setter", value, "ValueError", "",
                               <<>>, <<>>)
            /\ log' = <<>>
            /\ UNCHANGED reg
       ELSE LET c1 == RWBit_set(Ctx(Seen(NoData), 0), _ACC_CONF, 7, 1)
                c2 == RWBits_set(c1, 3, _ACC_CONF, 4, value)
            IN  /\ reg' = Config(c2.reg)
                /\ log' = c2.log
                /\ last' = Ended(c2, "oversample_rate.setter", value, "ok", "",
                                 <<>>, <<>>)
    /\ UNCHANGED <<handle, _acc_range_mem>>

---------------------------------------------------------------------------
\* filter_performance

filter_performance ==
    /\ handle = "operational"
    /\ LET c == RWBit_get(Ctx(Seen(NoData), 0), _ACC_CONF, 7)
           r == TupleIndex(filter_performance_names, c.val)
       IN  /\ log' = c.log
           /\ reg' = Config(c.reg)
           /\ last' = Ended(c, "filter_performance", 0, r.status, r.ret, <<>>, <<>>)
    /\ UNCHANGED <<handle, _acc_range_mem>>

filter_performance_setter(value) ==
    /\ handle = "operational"
    /\ IF value \notin filter_performance_values
       THEN /\ last' = Outcome("filter_performance.setter", value, "ValueError", "",
                               <<>>, <<>>)
            /\ log' = <<>>
            /\ UNCHANGED reg
       ELSE LET c == RWBit_set(Ctx(Seen(NoData), 0), _ACC_CONF, 7, value) IN
            /\ reg' = Config(c.reg)
            /\ log' = c.log
            /\ last' = Ended(c, "filter_performance.setter", value, "ok", "",
                             <<>>, <<>>)
    /\ UNCHANGED <<handle, _acc_range_mem>>

---------------------------------------------------------------------------
\* The device as it may be found at power-up: the data sheet's reset values,
\* and a device left configured by earlier use with reserved bits set

Presets ==
    { [conf |-> 168, range |-> 1, pwr |-> 0],
      [conf |-> 15, range |-> 254, pwr |-> 251] }

DeviceIds == {DEVICE_ID, 17}

Init ==
    /\ \E p \in Presets, id \in DeviceIds :
         reg = [a \in ConfigRegs |->
                  CASE a = _REG_WHOAMI -> id
                    [] a = _PWR_CTRL -> p.pwr
                    [] a = _ACC_RANGE -> p.range
                    [] a = _ACC_CONF -> p.conf]
    /\ handle = "absent"
    /\ _acc_range_mem = NoValue
    /\ log = <<>>
    /\ last = Outcome("none", 0, "ok", "", <<>>, <<>>)

\* What the sensor's output registers may hold when a call reads them
Sample(xl, xh, yl, yh, zl, zh, t) ==
    [a \in DataRegs |->
       CASE a = ACCX_LSB -> xl [] a = ACCX_MSB -> xh
         [] a = ACCY_LSB -> yl [] a = ACCY_MSB -> yh
         [] a = ACCZ_LSB -> zl [] a = ACCZ_MSB -> zh
         [] a = TEMP -> t]

\* at rest (x = 15, y = -2048, z = 1024 counts), and all bits set
SomeSamples ==
    { Sample(240, 0, 15, 128, 0, 64, 0),
      Sample(255, 255, 255, 255, 255, 255, 255),
      Sample(240, 127, 0, 0, 16, 128, 128) }

\* the arguments the callers pass: every code around each legal set, and for
\* the output data rate the ends and the middle of the legal codes
RangeArgs == (ACC_RANGE_2 - NegCodes) .. (ACC_RANGE_16 + Margin)
OdrArgs == ((BANDWIDTH_25_32 - NegCodes) .. (BANDWIDTH_25_32 + Margin))
             \cup {BANDWIDTH_50}
             \cup ((BANDWIDTH_1600 - Margin + 1) .. (BANDWIDTH_1600 + Margin))
OsrArgs == (OSR1 - NegCodes) .. (OSR128 + Margin)
PerfArgs == (CIC_AVG - NegCodes) .. (CONT + Margin)

Next ==
    \/ \E fail \in FailPoints : BMA423_init(fail)
    \/ \E data \in SomeSamples : acceleration(data)
    \/ \E data \in SomeSamples : temperature(data)
    \/ acc_range
    \/ \E value \in RangeArgs, fail \in FailPoints : acc_range_setter(value, fail)
    \/ output_data_rate
    \/ \E value \in OdrArgs : output_data_rate_setter(value)
    \/ oversample_rate
    \/ \E value \in OsrArgs : oversample_rate_setter(value)
    \/ filter_performance
    \/ \E value \in PerfArgs : filter_performance_setter(value)

Spec == Init /\ [][Next]_vars

---------------------------------------------------------------------------
\* The decoders over every register byte: an operational handle at each of
\* the four ranges takes one reading, of a sample that holds the same byte
\* pair on all three axes, or of a temperature byte.

InitDecode ==
    /\ \E r \in acc_range_values :
         /\ reg = [a \in ConfigRegs |->
                     CASE a = _REG_WHOAMI -> DEVICE_ID
                       [] a = _PWR_CTRL -> 4
                       [] a = _ACC_RANGE -> r
                       [] a = _ACC_CONF -> 168]
         /\ _acc_range_mem = r
    /\ handle = "operational"
    /\ log = <<>>
    /\ last = Outcome("none", 0, "ok", "", <<>>, <<>>)

NextDecode ==
    \/ /\ last.op = "none"
       /\ \E lsb \in Byte, msb \in Byte :
            acceleration(Sample(lsb, msb, lsb, msb, lsb, msb, 0))
    \/ /\ last.op = "none"
       /\ \E t \in Byte : temperature(Sample(0, 0, 0, 0, 0, 0, t))

SpecDecode == InitDecode /\ [][NextDecode]_vars

---------------------------------------------------------------------------
\* What the properties say of a call: which call it was and how it ended

Called(l, op) == l.op = op /\ l.status = "ok"

\* the symbolic name of each code, as the documented tables give it
RangeNameOf(v) ==
    CASE v = 0 -> "ACC_RANGE_2" [] v = 1 -> "ACC_RANGE_4"
      [] v = 2 -> "ACC_RANGE_8" [] v = 3 -> "ACC_RANGE_16"

OdrNameOf(v) ==
    CASE v = 1 -> "BANDWIDTH_25_32" [] v = 2 -> "BANDWIDTH_25_16"
      [] v = 3 -> "BANDWIDTH_25_8" [] v = 4 -> "BANDWIDTH_25_4"
      [] v = 5 -> "BANDWIDTH_25_2" [] v = 6 -> "BANDWIDTH_25"
      [] v = 7 -> "BANDWIDTH_50" [] v = 8 -> "BANDWIDTH_100"
      [] v = 9 -> "BANDWIDTH_200" [] v = 10 -> "BANDWIDTH_400"
      [] v = 11 -> "BANDWIDTH_800" [] v = 12 -> "BANDWIDTH_1600"

OsrNameOf(v) ==
    CASE v = 0 -> "OSR1" [] v = 1 -> "OSR2" [] v = 2 -> "OSR4" [] v = 3 -> "OSR8"
      [] v = 4 -> "OSR16" [] v = 5 -> "OSR32" [] v = 6 -> "OSR64" [] v = 7 -> "OSR128"

FactorOf(r) ==
    CASE r = 0 -> 1024 [] r = 1 -> 512 [] r = 2 -> 256 [] r = 3 -> 128

\* the nominal size in g of each range
SizeOf(r) == CASE r = 0 -> 2 [] r = 1 -> 4 [] r = 2 -> 8 [] r = 3 -> 16

LegalCodes(op) ==
    CASE op = "acc_range.setter" -> 0 .. 3
      [] op = "output_data_rate.setter" -> 1 .. 12
      [] op = "oversample_rate.setter" -> 0 .. 7
      [] op = "filter_performance.setter" -> 0 .. 1

SetterOps ==
    {"acc_range.setter", "output_data_rate.setter", "oversample_rate.setter",
     "filter_performance.setter"}

ReadOps ==
    {"acc_range", "output_data_rate", "oversample_rate", "filter_performance",
     "acceleration", "temperature"}

\* an N-bit pattern read as two's complement
Signed(p, n) == IF p < 2 ^ (n - 1) THEN p ELSE p - 2 ^ n

\* the bus transactions of a whole construction, in order
InitOrder ==
    << <<"r", _REG_WHOAMI>>, <<"r", _PWR_CTRL>>, <<"w", _PWR_CTRL>>,
       <<"r", _ACC_RANGE>> >>

\* every configuration register but the one at addr
Others(r, addr) == [a \in ConfigRegs \ {addr} |-> r[a]]

---------------------------------------------------------------------------
\* C1: a successful range set of code v, directly followed by a range get,
\* makes the get return the symbolic name of v.
C1_SetThenGetRange ==
    [][ (Called(last, "acc_range.setter") /\ last'.op = "acc_range")
        => (last'.status = "ok" /\ last'.ret = RangeNameOf(last.arg)) ]_vars

\* a get that answers ACC_RANGE_16, which no device starts at: a set put it there
C1_Witness ==
    /\ Called(last, "acc_range")
    /\ last.ret = "ACC_RANGE_16"
    /\ RangeField(reg) = ACC_RANGE_16

\* C2: a successful output-data-rate set of code v, directly followed by an
\* output-data-rate get, makes the get succeed and return the symbolic name of v.
C2_SetThenGetOdr ==
    [][ (Called(last, "output_data_rate.setter") /\ last'.op = "output_data_rate")
        => (last'.status = "ok" /\ last'.ret = OdrNameOf(last.arg)) ]_vars

\* C3: a setter called with a value outside its legal set fails with the
\* invalid-setting error, issues no bus transaction and leaves every register
\* and the cached range as they were.
C3_InvalidRejected ==
    [][ (last'.op \in SetterOps /\ last'.arg \notin LegalCodes(last'.op))
        => /\ last'.status = "ValueError"
           /\ log' = <<>>
           /\ reg' = reg
           /\ _acc_range_mem' = _acc_range_mem ]_vars

\* an oversample set was refused while the filter bit was averaging, and the
\* bit still is
C3_Witness ==
    /\ last.op = "oversample_rate.setter"
    /\ last.status = "ValueError"
    /\ last.arg \notin oversample_rate_values
    /\ PerfBit(reg) = CIC_AVG

\* C4: a successful oversample set of code v leaves the filter bit continuous
\* and the oversample field at v; a filter get or an oversample get that
\* directly follows returns CONT, respectively the name of v; and the filter
\* bit goes from continuous to averaging only by a filter set of CIC_AVG.
C4_OversampleForcesContinuous ==
    [][ /\ Called(last', "oversample_rate.setter")
           => (PerfBit(reg') = CONT /\ OsrField(reg') = last'.arg)
        /\ (Called(last, "oversample_rate.setter") /\ last'.op = "filter_performance")
           => (last'.status = "ok" /\ last'.ret = "CONT")
        /\ (Called(last, "oversample_rate.setter") /\ last'.op = "oversample_rate")
           => (last'.status = "ok" /\ last'.ret = OsrNameOf(last.arg))
        /\ (PerfBit(reg) = CONT /\ PerfBit(reg') = CIC_AVG)
           => (Called(last', "filter_performance.setter") /\ last'.arg = CIC_AVG)
      ]_vars

\* an oversample set that found the filter bit averaging (the byte it read
\* first has bit 7 clear) and left it continuous
C4_Witness ==
    /\ Called(last, "oversample_rate.setter")
    /\ last.arg = 5
    /\ log[1].val < 128
    /\ PerfBit(reg) = CONT

\* C5: construction reads the identity register first.  On any identity other
\* than 0x13 it fails with the device-not-found error having issued that one
\* read only: no write, no range read, no handle.  On 0x13 it goes on, in
\* order, to the enable write (a read and a write of PWR_CTRL) and the range
\* read, whose field becomes the cache; a transport error cuts that sequence
\* short and changes nothing of the order.
C5_ConstructionOrder ==
    last.op = "__init__" =>
      /\ Len(log) \in 1 .. Len(InitOrder)
      /\ \A i \in DOMAIN log : <<log[i].kind, log[i].addr>> = InitOrder[i]
      /\ (log[1].ok /\ reg[_REG_WHOAMI] # 19)
         => /\ last.status = "RuntimeError"
            /\ Len(log) = 1
            /\ handle = "absent"
      /\ (reg[_REG_WHOAMI] = 19 /\ last.status # "OSError")
         => /\ last.status = "ok"
            /\ Len(log) = Len(InitOrder)
            /\ log[3].val = BitOr(log[2].val, 4)
            /\ AccOnBit(reg) = 1
            /\ handle = "operational"
            /\ _acc_range_mem = log[4].val % 4
      /\ last.status # "ok" => handle = "absent"

\* a construction refused for its identity byte, the enable bit still clear
C5_Witness ==
    /\ last.op = "__init__"
    /\ last.status = "RuntimeError"
    /\ reg[_REG_WHOAMI] # 19
    /\ AccOnBit(reg) = 0

\* C6: while the handle exists, the cached range is the range field of the
\* device's ACC_RANGE register.
C6_CacheMatchesDevice ==
    handle = "operational" =>
      /\ _acc_range_mem \in acc_range_values
      /\ _acc_range_mem = RangeField(reg)

\* a range set whose bus write failed, for a code other than the cached one
C6_Witness ==
    /\ last.op = "acc_range.setter"
    /\ last.status = "OSError"
    /\ Len(log) = 2
    /\ log[2].kind = "w"
    /\ last.arg # _acc_range_mem

\* C7: for the byte pair (LSB, MSB) read for an axis, the axis's raw count is
\* the pattern MSB*16 + (LSB >> 4) read as 12-bit two's complement; it lies in
\* -2048 .. 2047; the three axes decode the same pair to the same count; and
\* 0xFFF gives -1, 0x800 gives -2048, 0 gives 0, 0x7FF gives 2047, and
\* LSB = 0xF0 with MSB = 0 gives 15.
C7_RawCount ==
    Called(last, "acceleration") =>
      /\ Len(log) = 6
      /\ \A i \in 1 .. 3 :
           LET lsb == log[2 * i - 1].val
               msb == log[2 * i].val
               p == msb * 16 + lsb \div 16
           IN  /\ last.raw[i] = Signed(p, 12)
               /\ last.raw[i] \in -2048 .. 2047
               /\ p = 4095 => last.raw[i] = -1
               /\ p = 2048 => last.raw[i] = -2048
               /\ p = 0 => last.raw[i] = 0
               /\ p = 2047 => last.raw[i] = 2047
               /\ (lsb = 240 /\ msb = 0) => last.raw[i] = 15
      /\ (log[3].val = log[1].val /\ log[4].val = log[2].val)
         => last.raw[2] = last.raw[1]
      /\ (log[5].val = log[1].val /\ log[6].val = log[2].val)
         => last.raw[3] = last.raw[1]

\* the pattern 0xFFF (LSB 0xF0, MSB 0xFF) decoded to -1 on all three axes
C7_Witness ==
    /\ Called(last, "acceleration")
    /\ log[1].val = 240
    /\ log[2].val = 255
    /\ last.raw = <<-1, -1, -1>>

\* C8: each axis of a reading is its raw count divided by the factor of the
\* cached range (2g 1024, 4g 512, 8g 256, 16g 128), the same factor for all
\* three axes: result * factor = count.  A count of 1024 gives 1 at 2g and 8
\* at 16g, and at a range of nominal size R the result lies in [-R, R).
C8_Scaling ==
    Called(last, "acceleration") =>
      \A i \in 1 .. 3 :
        LET q == last.out[i]
            c == last.raw[i]
            f == FactorOf(_acc_range_mem)
            R == SizeOf(_acc_range_mem)
        IN  /\ q.den > 0
            /\ q.num * f = c * q.den
            /\ (0 - R) * q.den <= q.num
            /\ q.num < R * q.den
            /\ (c = 1024 /\ _acc_range_mem = ACC_RANGE_2) => q = [num |-> 1, den |-> 1]
            /\ (c = 1024 /\ _acc_range_mem = ACC_RANGE_16) => q = [num |-> 8, den |-> 1]

\* a count of 1024 on every axis read at 16g: 8 on every axis
C8_Witness ==
    /\ Called(last, "acceleration")
    /\ _acc_range_mem = ACC_RANGE_16
    /\ last.raw = <<1024, 1024, 1024>>
    /\ \A i \in 1 .. 3 : last.out[i] = [num |-> 8, den |-> 1]

\* C9: a temperature read is one read of register 0x22 and nothing else, and
\* returns the byte read as 8-bit two's complement plus 23: a value in
\* -105 .. 150, 22 for 0xFF and 23 for 0x00.
C9_Temperature ==
    Called(last, "temperature") =>
      /\ Len(log) = 1
      /\ log[1].kind = "r"
      /\ log[1].addr = 34
      /\ LET b == log[1].val
             t == last.out[1]
         IN  /\ t.den = 1
             /\ t.num = Signed(b, 8) + 23
             /\ t.num \in -105 .. 150
             /\ b = 255 => t.num = 22
             /\ b = 0 => t.num = 23

\* the byte 0xFF read as 22 degrees
C9_Witness ==
    /\ Called(last, "temperature")
    /\ log[1].val = 255
    /\ last.out[1] = [num |-> 22, den |-> 1]

\* C10: a successful setter changes its own field only (the output data rate
\* bits 0-3 of ACC_CONF, the filter performance bit 7 of ACC_CONF, the range
\* bits 0-1 of ACC_RANGE and the cache, the oversample rate bits 4-7 of
\* ACC_CONF); the getters and the two readings change no register and not
\* the cache; and once the handle exists the enable bit stays set.
C10_Frame ==
    [][ /\ Called(last', "output_data_rate.setter")
           => /\ reg'[_ACC_CONF] \div 16 = reg[_ACC_CONF] \div 16
              /\ Others(reg', _ACC_CONF) = Others(reg, _ACC_CONF)
              /\ _acc_range_mem' = _acc_range_mem
        /\ Called(last', "filter_performance.setter")
           => /\ reg'[_ACC_CONF] % 128 = reg[_ACC_CONF] % 128
              /\ Others(reg', _ACC_CONF) = Others(reg, _ACC_CONF)
              /\ _acc_range_mem' = _acc_range_mem
        /\ Called(last', "oversample_rate.setter")
           => /\ OdrField(reg') = OdrField(reg)
              /\ Others(reg', _ACC_CONF) = Others(reg, _ACC_CONF)
              /\ _acc_range_mem' = _acc_range_mem
        /\ Called(last', "acc_range.setter")
           => /\ RangeRest(reg') = RangeRest(reg)
              /\ Others(reg', _ACC_RANGE) = Others(reg, _ACC_RANGE)
        /\ last'.op \in ReadOps
           => (reg' = reg /\ _acc_range_mem' = _acc_range_mem)
        /\ handle = "operational"
           => (handle' = "operational" /\ AccOnBit(reg') = 1)
      ]_vars

\* a range set to 16g on the device whose ACC_RANGE held reserved bits: they
\* are all still set
C10_Witness ==
    /\ Called(last, "acc_range.setter")
    /\ last.arg = ACC_RANGE_16
    /\ RangeField(reg) = ACC_RANGE_16
    /\ RangeRest(reg) = 63
    /\ PwrRest(reg) = 251

=============================================================================
